---- MODULE Spec2Model ----
(***************************************************************************)
(* Connect4Discord: the Board (assets/model/Board.js) and the Room         *)
(* (turn state machine, win detection, evaluator, minimax search).         *)
(*                                                                         *)
(* Coordinates are the code's: squares[x][y], x the column 0..6, y the     *)
(* row 0..5, and row 5 (rows-1) is the bottom row: getFirstFreeSquarePos    *)
(* scans y from rows-1 down to 0.                                          *)
(***************************************************************************)
EXTENDS Integers, Sequences, FiniteSets, TLC

\* ------------------------------------------------------------------ constants
Rows == 6
Cols == 7

EMPTY == "EMPTY"
RED   == "RED"
BLUE  == "BLUE"
NULL  == "null"

HUMAN      == "HUMAN"
EASY_BOT   == "EASY_BOT"
NORMAL_BOT == "NORMAL_BOT"
STUPID_BOT == "STUPID_BOT"
RANDOM_BOT == "RANDOM_BOT"
CHEAT_BOT  == "CHEAT_BOT"

ColRange == 0 .. (Cols - 1)
RowRange == 0 .. (Rows - 1)

\* ------------------------------------------------------------------ Board
\* new Board(): every square empty.
NewBoard == [x \in ColRange |-> [y \in RowRange |-> EMPTY]]

\* Square.isEmpty()
isEmpty(sq) == sq = EMPTY

\* hasFreeSquare with its loop starting at y = 1
hasFreeSquareFromOne(board, col) == \E y \in RowRange \ {0} : isEmpty(board[col][y])

\* Board.hasFreeSquare(col), for a column in range
hasFreeSquare(board, col) == \E y \in RowRange : isEmpty(board[col][y])

\* Board.getFree(): the free columns, ascending
getFree(board) ==
    SelectSeq([i \in 1 .. Cols |-> i - 1], LAMBDA x : hasFreeSquare(board, x))

\* getFirstFreeSquarePos scanning from y = 0 up instead
getFirstFreeSquarePosFromTop(board, col) ==
    CHOOSE y \in RowRange :
        isEmpty(board[col][y]) /\ \A y2 \in RowRange : y2 < y => ~isEmpty(board[col][y2])

\* Board.getFirstFreeSquarePos(col): the first empty y scanning from rows-1 down
getFirstFreeSquarePos(board, col) ==
    CHOOSE y \in RowRange :
        /\ isEmpty(board[col][y])
        /\ \A y2 \in RowRange : y2 > y => ~isEmpty(board[col][y2])

\* Board.setSquare(x, y, type) throws: a position out of range, the EMPTY type,
\* a square that is not empty, or a type that is neither RED nor BLUE.
setSquareThrows(board, x, y, type) ==
    \/ x < 0 \/ x >= Cols
    \/ y < 0 \/ y >= Rows
    \/ type = EMPTY
    \/ ~isEmpty(board[x][y])
    \/ (type # RED /\ type # BLUE)

\* setSquare writing the square and the one under it
setSquareAndBelow(board, x, y, type) ==
    [board EXCEPT ![x] = [yy \in RowRange |->
                            IF yy = y \/ yy = y + 1 THEN type ELSE board[x][yy]]]

\* Board.setSquare(x, y, type) when it does not throw
setSquare(board, x, y, type) == [board EXCEPT ![x][y] = type]

\* Board.copy(): a new Board whose squares are set from this one's, square by square
copy(board) ==
    [x \in ColRange |-> [y \in RowRange |->
        IF ~isEmpty(board[x][y]) THEN board[x][y] ELSE EMPTY]]

\* ------------------------------------------------------------------ Room: win detection
\* The loops of _getSquareTypeWinner and _getScore visit the windows of four
\* squares (x, y), (x+dx, y+dy), (x+2dx, y+2dy), (x+3dx, y+3dy):
\*   vertical       x = 0 .. cols-1,       y = rows-1 down to 3,  (dx, dy) = (0, -1)
\*   horizontal     y = rows-1 down to 0,  x = 0 .. cols-4,       (dx, dy) = (1, 0)
\*   diagonal       x = 0 .. cols-4,       y = rows-1 down to 3,  (dx, dy) = (1, -1)
\*   anti-diagonal  x = cols-1 down to 3,  y = rows-1 down to 3,  (dx, dy) = (-1, -1)
VerticalStarts     == (0 .. (Cols - 1)) \X (3 .. (Rows - 1))
HorizontalStarts   == (0 .. (Cols - 4)) \X (0 .. (Rows - 1))
DiagonalStarts     == (0 .. (Cols - 4)) \X (3 .. (Rows - 1))
\* (the anti-diagonal loop stopping one column early, x > 3)
AntiDiagonalStartsShort == (4 .. (Cols - 1)) \X (3 .. (Rows - 1))
AntiDiagonalStarts == (3 .. (Cols - 1)) \X (3 .. (Rows - 1))

\* The while loop of one window runs to its end (cpt reaches the fourth step): the
\* four squares are not empty and have the type of the window's first square.
WindowWon(b, x, y, dx, dy) ==
    /\ ~isEmpty(b[x][y])
    /\ ~isEmpty(b[x + dx][y + dy]) /\ b[x + dx][y + dy] = b[x][y]
    /\ ~isEmpty(b[x + 2 * dx][y + 2 * dy]) /\ b[x + 2 * dx][y + 2 * dy] = b[x][y]
    /\ ~isEmpty(b[x + 3 * dx][y + 3 * dy]) /\ b[x + 3 * dx][y + 3 * dy] = b[x][y]

\* The windows of one orientation that are won
Hits(b, starts, dx, dy) == {h \in starts : WindowWon(b, h[1], h[2], dx, dy)}

\* The place of a window in its pair of loops: x outer and ascending, y inner and
\* descending (vertical, diagonal); y outer, x inner (horizontal); x descending
\* (anti-diagonal)
RankXY(h) == h[1] * Rows + (Rows - 1 - h[2])
RankYX(h) == (Rows - 1 - h[2]) * Cols + h[1]
RankDescXY(h) == (Cols - 1 - h[1]) * Rows + (Rows - 1 - h[2])

\* The first won window the loops reach
FirstHit(hits, Rank(_)) == CHOOSE h \in hits : \A g \in hits : Rank(h) <= Rank(g)

\* Room._getSquareTypeWinner(board): the type of the first won window, null if none
getSquareTypeWinner(b) ==
    LET v == Hits(b, VerticalStarts, 0, -1)
        h == Hits(b, HorizontalStarts, 1, 0)
        d == Hits(b, DiagonalStarts, 1, -1)
        a == Hits(b, AntiDiagonalStarts, -1, -1)
        first == IF v # {} THEN FirstHit(v, RankXY)
                 ELSE IF h # {} THEN FirstHit(h, RankYX)
                 ELSE IF d # {} THEN FirstHit(d, RankXY)
                 ELSE FirstHit(a, RankDescXY)
    IN  IF v = {} /\ h = {} /\ d = {} /\ a = {} THEN NULL
        ELSE b[first[1]][first[2]]

\* isOver asking only for a full board
\* isOver without its test of the free columns
isOverByLineOnly(b) == getSquareTypeWinner(b) # NULL

isOverWhenFull(b) == Len(getFree(b)) = 0

\* Room.isOver(board)
isOver(b) == Len(getFree(b)) = 0 \/ getSquareTypeWinner(b) # NULL

\* ------------------------------------------------------------------ Room: evaluator
CENTER_POINTS     == 4
LINES2_POINTS     == 2
LINES3_POINTS     == 5
WIN_POINTS        == 10000
OPP_LINES2_POINTS == -2
OPP_LINES3_POINTS == -5
OPP_WIN_POINTS    == -1000

\* Room._calcScore(nb_empty, nb_square)
calcScore(nb_empty, nb_square) ==
    CASE nb_empty = 0 /\ nb_square = 0 -> OPP_WIN_POINTS
      [] nb_empty = 0 /\ nb_square = 4 -> WIN_POINTS
      [] nb_empty = 1 /\ nb_square = 0 -> OPP_LINES3_POINTS
      [] nb_empty = 1 /\ nb_square = 3 -> LINES3_POINTS
      [] nb_empty = 2 /\ nb_square = 0 -> OPP_LINES2_POINTS
      [] nb_empty = 2 /\ nb_square = 2 -> LINES2_POINTS
      [] OTHER -> 0

Count(cond) == IF cond THEN 1 ELSE 0

\* One square in the while loop of a window: nb_empty++ if it is empty, else
\* nb_player_square++ if it has the player's type
NbEmpty(sq) == Count(isEmpty(sq))
NbPlayer(sq, squareType) == Count(~isEmpty(sq) /\ sq = squareType)

\* One window of _getScore
WindowScore(b, x, y, dx, dy, squareType) ==
    calcScore(NbEmpty(b[x][y]) + NbEmpty(b[x + dx][y + dy])
                + NbEmpty(b[x + 2 * dx][y + 2 * dy]) + NbEmpty(b[x + 3 * dx][y + 3 * dy]),
              NbPlayer(b[x][y], squareType) + NbPlayer(b[x + dx][y + dy], squareType)
                + NbPlayer(b[x + 2 * dx][y + 2 * dy], squareType)
                + NbPlayer(b[x + 3 * dx][y + 3 * dy], squareType))

\* f[lo] + f[lo + 1] + ... + f[hi]
RECURSIVE SumFrom(_, _, _)
SumFrom(f, lo, hi) == IF lo > hi THEN 0 ELSE f[lo] + SumFrom(f, lo + 1, hi)

\* The points of all the windows of one orientation, x in xlo .. xhi, y in ylo .. yhi
LinePoints(b, xlo, xhi, ylo, yhi, dx, dy, squareType) ==
    SumFrom([x \in xlo .. xhi |->
                SumFrom([y \in ylo .. yhi |-> WindowScore(b, x, y, dx, dy, squareType)],
                        ylo, yhi)],
            xlo, xhi)

\* The center loop of _getScore: CENTER_POINTS for each square of column floor(cols/2)
CenterPoints(b, squareType) ==
    SumFrom([y \in RowRange |-> IF b[Cols \div 2][y] = squareType THEN CENTER_POINTS ELSE 0],
            0, Rows - 1)

\* _getScore with its horizontal loop over the rows of the vertical one (y > 2)
getScoreLowRows(b, squareType) ==
      CenterPoints(b, squareType)
    + LinePoints(b, 0, Cols - 1, 3, Rows - 1, 0, -1, squareType)
    + LinePoints(b, 0, Cols - 4, 3, Rows - 1, 1, 0, squareType)
    + LinePoints(b, 0, Cols - 4, 3, Rows - 1, 1, -1, squareType)
    + LinePoints(b, 3, Cols - 1, 3, Rows - 1, -1, -1, squareType)

\* Room._getScore(board, player), for the player's square type
getScore(b, squareType) ==
      CenterPoints(b, squareType)
    + LinePoints(b, 0, Cols - 1, 3, Rows - 1, 0, -1, squareType)
    + LinePoints(b, 0, Cols - 4, 0, Rows - 1, 1, 0, squareType)
    + LinePoints(b, 0, Cols - 4, 3, Rows - 1, 1, -1, squareType)
    + LinePoints(b, 3, Cols - 1, 3, Rows - 1, -1, -1, squareType)

\* ------------------------------------------------------------------ Room: state
VARIABLES
    board,          \* this._board._squares
    players,        \* this._players: [0 .. 1 -> [type, squareType]]
    currentPlayer,  \* this._currentPlayer, an index into players
    last,           \* the last call made on the room and how it ended
    budget,         \* how many more calls of the callers may change the board
    heap,           \* the Square objects: the type each one holds
    frames          \* the Board objects in scope: the Square each cell refers to

vars == <<board, players, currentPlayer, last, budget, heap, frames>>

\* Number.POSITIVE_INFINITY, above every score of the evaluator
Infinity == 1000000000

\* A value that is not a column: free[NaN], or bestPos never assigned
UNDEFINED == -1000

\* F(v), with v evaluated once
With(v, F(_)) == CHOOSE r \in {F(x) : x \in {v}} : TRUE

Max(a, b) == IF a > b THEN a ELSE b
Min(a, b) == IF a < b THEN a ELSE b

\* get opponentPlayer(), as an index, when the current player is cp
Opponent(cp) == (cp + 1) % 2

\* ------------------------------------------------------------------ Room: search
RECURSIVE minimaxValue(_, _, _, _, _, _)
RECURSIVE MaxLoop(_, _, _, _, _, _, _, _, _)
RECURSIVE MinLoop(_, _, _, _, _, _, _, _)

\* The maximizer's loop were a tie to replace the column kept so far
MaxLoopTakesTies(b, depth, alpha, beta, free, i, maxEval, bestPos, cp) ==
    IF i > Len(free) THEN [eval |-> maxEval, pos |-> bestPos]
    ELSE
        With(setSquare(copy(b), free[i], getFirstFreeSquarePos(b, free[i]),
                       players[cp].squareType), LAMBDA cpy :
        With(minimaxValue(cpy, depth - 1, alpha, beta, FALSE, cp), LAMBDA currentEval :
            LET better == currentEval >= maxEval
                maxEval2 == IF better THEN currentEval ELSE maxEval
                bestPos2 == IF better THEN free[i] ELSE bestPos
                alpha2 == Max(alpha, currentEval)
            IN  IF beta <= alpha2 THEN [eval |-> maxEval2, pos |-> bestPos2]
                ELSE MaxLoop(b, depth, alpha2, beta, free, i + 1, maxEval2, bestPos2, cp)))

\* The maximizer's for loop over board.getFree(), from index i, with its break
MaxLoop(b, depth, alpha, beta, free, i, maxEval, bestPos, cp) ==
    IF i > Len(free) THEN [eval |-> maxEval, pos |-> bestPos]
    ELSE
        With(setSquare(copy(b), free[i], getFirstFreeSquarePos(b, free[i]),
                       players[cp].squareType), LAMBDA cpy :
        With(minimaxValue(cpy, depth - 1, alpha, beta, FALSE, cp), LAMBDA currentEval :
            LET better == currentEval > maxEval
                maxEval2 == IF better THEN currentEval ELSE maxEval
                bestPos2 == IF better THEN free[i] ELSE bestPos
                alpha2 == Max(alpha, currentEval)
            IN  IF beta <= alpha2 THEN [eval |-> maxEval2, pos |-> bestPos2]
                ELSE MaxLoop(b, depth, alpha2, beta, free, i + 1, maxEval2, bestPos2, cp)))

\* The minimizer's for loop over board.getFree(), from index i, with its break
MinLoop(b, depth, alpha, beta, free, i, minEval, cp) ==
    IF i > Len(free) THEN minEval
    ELSE
        With(setSquare(copy(b), free[i], getFirstFreeSquarePos(b, free[i]),
                       players[Opponent(cp)].squareType), LAMBDA cpy :
        With(minimaxValue(cpy, depth - 1, alpha, beta, TRUE, cp), LAMBDA currentEval :
            LET minEval2 == Min(currentEval, minEval)
                beta2 == Min(beta, currentEval)
            IN  IF beta2 <= alpha THEN minEval2
                ELSE MinLoop(b, depth, alpha, beta2, free, i + 1, minEval2, cp)))

\* The base case of _minimax, entered when depth is 0 or the board is over;
\* w is _getSquareTypeWinner(board) and over is isOver(board)
TerminalValue(b, cp, w, over) ==
    IF over
    THEN IF w = players[cp].squareType THEN WIN_POINTS
         ELSE IF w = players[Opponent(cp)].squareType THEN OPP_WIN_POINTS
         ELSE 0
    ELSE getScore(b, players[cp].squareType)

\* Room._minimax(board, depth, alpha, beta, isMaximizer, false) while the room's
\* current player is cp: the value of the position.  isOver(board) and the winner
\* are pure, so each is evaluated once here where the code evaluates it again.
minimaxValue(b, depth, alpha, beta, isMaximizer, cp) ==
    LET free == getFree(b)
        w == getSquareTypeWinner(b)
        over == Len(free) = 0 \/ w # NULL
    IN  IF depth = 0 \/ over THEN TerminalValue(b, cp, w, over)
        ELSE IF isMaximizer
        THEN MaxLoop(b, depth, alpha, beta, free, 1, -Infinity, UNDEFINED, cp).eval
        ELSE MinLoop(b, depth, alpha, beta, free, 1, Infinity, cp)

\* Room._minimax(board, depth, -Infinity, Infinity, true, true): the outermost call
\* returns bestPos (the base case returns a value even there)
minimax(b, depth, cp) ==
    IF depth = 0 \/ isOver(b) THEN TerminalValue(b, cp, getSquareTypeWinner(b), isOver(b))
    ELSE MaxLoop(b, depth, -Infinity, Infinity, getFree(b), 1, -Infinity, UNDEFINED, cp).pos

\* ------------------------------------------------------------------ Room: play
\* Math.ceil in place of Math.floor, for every random number but 0
RandomIndexCeil(u, den, n) == IF u = 0 THEN 0 ELSE (u * n) \div den + 1

\* Math.floor(Math.random() * n), the random number being u / den in [0, 1)
RandomIndex(u, den, n) == (u * n) \div den

\* array[idx] of a JavaScript array: undefined past the end
ElemFromOne(array, idx) == IF idx \in DOMAIN array THEN array[idx] ELSE UNDEFINED

Elem(array, idx) == IF idx + 1 \in DOMAIN array THEN array[idx + 1] ELSE UNDEFINED

\* The depth of the search of each bot that searches
Depth(type) ==
    CASE type = EASY_BOT -> 1
      [] type = NORMAL_BOT -> 3
      [] type = CHEAT_BOT -> 8

\* The switch with the Stupid bot taking the last free column instead of the first
BotPosLastFree(b, cp, u, den) ==
    LET type == players[cp].type
    IN  CASE type \in {EASY_BOT, NORMAL_BOT, CHEAT_BOT} -> minimax(b, Depth(type), cp)
          [] type = STUPID_BOT -> Elem(getFree(b), Len(getFree(b)) - 1)
          [] type = RANDOM_BOT -> Elem(getFree(b), RandomIndex(u, den, Len(getFree(b))))

\* The switch of play: the position the bot cp plays on board b (u: its random number)
BotPos(b, cp, u, den) ==
    LET type == players[cp].type
    IN  CASE type \in {EASY_BOT, NORMAL_BOT, CHEAT_BOT} -> minimax(b, Depth(type), cp)
          [] type = STUPID_BOT -> Elem(getFree(b), 0)
          [] type = RANDOM_BOT -> Elem(getFree(b), RandomIndex(u, den, Len(getFree(b))))

Outcome(b, cp, result) == [board |-> b, currentPlayer |-> cp, result |-> result]

\* Room.play(pos) on the room (b, cp): the room after the call and how the call ended.
\*   "InvalidColumn": threw "The position is invalid." (or the board's "Column
\*                    invalid." for a position that is not a number)
\*   "ColumnFull":    threw "The given position has no squares free."
\*   "rejected":      the promise is rejected: something threw inside the executor
\*   "ok":            the promise is resolved
\* swapPlayer leaving the current player where it is
swapPlayerStays(cp) == cp

\* Room.swapPlayer(): the index of the current player after it
swapPlayer(cp) == (cp + 1) % 2

\* The first check of play: pos < 0 || pos >= cols.  A position that is not a
\* number passes it and makes hasFreeSquare throw "Column invalid." instead.
\* (below it the same check with the last column taken for one past the board)
PositionInvalidShort(pos) == pos = UNDEFINED \/ pos < 0 \/ pos >= Cols - 1

PositionInvalid(pos) == pos = UNDEFINED \/ pos < 0 \/ pos >= Cols

RECURSIVE play(_, _, _, _, _)

\* The executor with swapPlayer() called before the test of isOver
AfterDropSwapsWhenOver(b1, cp, u, den) ==
    LET cp1 == swapPlayer(cp)
    IN  IF isOver(b1) \/ players[cp1].type = HUMAN THEN Outcome(b1, cp1, "ok")
        ELSE With(BotPos(b1, cp1, u, den), LAMBDA botPos :
             With(play(b1, cp1, botPos, u, den), LAMBDA r :
                IF r.result \in {"InvalidColumn", "ColumnFull"}
                THEN Outcome(b1, cp1, "rejected")
                ELSE Outcome(r.board, r.currentPlayer, "ok")))

\* The executor with its switch on the bot's type left out: no reply is chained
AfterDropNoReply(b1, cp, u, den) ==
    IF isOver(b1) THEN Outcome(b1, cp, "ok") ELSE Outcome(b1, swapPlayer(cp), "ok")

\* The executor of play's promise once the square is set: b1 is the board after it
AfterDrop(b1, cp, u, den) ==
    IF isOver(b1) THEN Outcome(b1, cp, "ok")
    ELSE
        \* swapPlayer(), then the bot's turn
        LET cp1 == swapPlayer(cp)
        IN  IF players[cp1].type = HUMAN THEN Outcome(b1, cp1, "ok")
            ELSE With(BotPos(b1, cp1, u, den), LAMBDA botPos :
                 With(play(b1, cp1, botPos, u, den), LAMBDA r :
                    IF r.result \in {"InvalidColumn", "ColumnFull"}
                    THEN Outcome(b1, cp1, "rejected")
                    ELSE Outcome(r.board, r.currentPlayer, "ok")))

play(b, cp, pos, u, den) ==
    IF PositionInvalid(pos) THEN Outcome(b, cp, "InvalidColumn")
    ELSE IF ~hasFreeSquare(b, pos) THEN Outcome(b, cp, "ColumnFull")
    ELSE
        LET y == getFirstFreeSquarePos(b, pos)
            type == players[cp].squareType
        IN  IF setSquareThrows(b, pos, y, type) THEN Outcome(b, cp, "rejected")
            ELSE With(setSquare(b, pos, y, type), LAMBDA b1 : AfterDrop(b1, cp, u, den))

\* Room.getWinner() when it does not throw: the index of the player, NoPlayer for null
NoPlayer == -1

\* getWinner with the two branches of its last line exchanged
getWinnerExchanged(b) ==
    LET typeWinner == getSquareTypeWinner(b)
    IN  IF typeWinner = NULL THEN NoPlayer
        ELSE IF players[0].squareType = typeWinner THEN 1 ELSE 0

getWinner(b) ==
    LET typeWinner == getSquareTypeWinner(b)
    IN  IF typeWinner = NULL THEN NoPlayer
        ELSE IF players[0].squareType = typeWinner THEN 0 ELSE 1

\* ------------------------------------------------------------------ the callers
\* How many calls that change the board the callers make
MaxFree == 2

PlayerTypes == {HUMAN, EASY_BOT, NORMAL_BOT, STUPID_BOT, RANDOM_BOT, CHEAT_BOT}

\* The drops of a game so far, in order, the starting player's (BLUE) first
RECURSIVE Replay(_, _, _)
Replay(b, drops, i) ==
    IF i > Len(drops) THEN b
    ELSE Replay(setSquare(b, drops[i], getFirstFreeSquarePos(b, drops[i]),
                          IF i % 2 = 1 THEN BLUE ELSE RED),
                drops, i + 1)

\* Recorded games, each the drops in order (in a match against a bot the human's
\* and the bot's alternate, and each bot drop is the one that bot's policy picks
\* there).  No drop of a recorded game ends it.
HumanEndgame ==
    <<6, 0, 6, 4, 6, 6, 6, 2, 0, 6, 5, 0, 0, 0, 3, 0, 3, 2, 3, 1,
      2, 3, 3, 1, 2, 2, 3, 2, 5, 5, 5, 4, 5, 4, 5, 1, 1, 1, 4, 4>>
HumanMidgame ==
    <<0, 0, 3, 6, 0, 5, 5, 5, 0, 6, 0, 6, 1, 4, 3, 4, 6, 6, 4, 4, 4, 6, 4, 3, 5, 1>>
StupidMidgame ==
    <<4, 0, 1, 0, 1, 0, 0, 0, 2, 0, 1, 1, 1, 1, 2, 2, 6, 2, 2, 2,
      5, 3, 3, 3, 5, 3, 5, 3, 3, 4>>
EasyMidgame ==
    <<2, 3, 2, 3, 2, 3, 3, 2, 1, 3, 6, 2, 5, 3, 6, 2, 6, 6, 6, 1,
      4, 1, 4, 1, 1, 1, 4, 4, 6, 4>>
NormalMidgame ==
    <<0, 3, 0, 3, 0, 0, 0, 4, 2, 2, 4, 3, 3, 2, 0, 4, 4, 5, 6, 2, 2, 3, 2, 3, 4, 4>>
RandomMidgame ==
    <<5, 3, 0, 0, 1, 5, 4, 4, 5, 3, 4, 4, 3, 5, 1, 0, 5, 1, 3, 2,
      4, 5, 1, 6, 0, 1, 4, 1, 3, 0>>
CheatMidgame ==
    <<0, 3, 0, 3, 0, 0, 0, 3, 3, 3, 4, 4, 3, 4, 4, 4, 0, 4, 5, 1,
      6, 1, 1, 2, 2, 1, 1, 1, 2, 2, 2, 2, 5, 5>>
NormalLategame ==
    <<3, 2, 1, 3, 1, 1, 3, 3, 3, 3, 0, 2, 2, 2, 2, 1, 5, 1, 1, 5, 6, 4, 4, 2, 6, 6>>

\* The rooms the callers are given: a new room, or a room some way into a game
Openings(secondType) ==
    CASE secondType = HUMAN -> {<<>>, HumanMidgame, HumanEndgame}
      [] secondType = STUPID_BOT -> {<<>>, StupidMidgame}
      [] secondType = EASY_BOT -> {<<>>, EasyMidgame}
      [] secondType = NORMAL_BOT -> {<<>>, NormalMidgame, NormalLategame}
      [] secondType = RANDOM_BOT -> {<<>>, RandomMidgame}
      [] secondType = CHEAT_BOT -> {<<>>, CheatMidgame}

\* On a new room whose bot searches or draws random numbers the callers make no
\* drop: the replies to every first drop are outside what the check explores.
Budget(secondType, opening) ==
    IF opening = <<>> /\ secondType \notin {HUMAN, STUPID_BOT} THEN 0 ELSE MaxFree

\* The random numbers of a call are the multiples of 1 / RandDen in [0, 1), with
\* RandDen the number of free columns before the call: Math.floor(random * n) then
\* takes every index of an array of n <= RandDen elements.
RandDen == Max(1, Len(getFree(board)))

\* The random numbers a call can draw for the bot: only the Random bot draws one
RandomDraws == IF players[1].type = RANDOM_BOT THEN 0 .. (RandDen - 1) ELSE {0}

\* The constructor's _currentPlayer: Math.floor(Math.random() * 2) when the second
\* player is human, else 0
StartingPlayersAlwaysRandom(secondType) == {0, 1}

StartingPlayers(secondType) == IF secondType = HUMAN THEN {0, 1} ELSE {0}

\* The constructor's _players, once the current player is BLUE and the opponent RED
NewPlayers(secondType, start) ==
    [i \in {0, 1} |->
        [type |-> IF i = 0 THEN HUMAN ELSE secondType,
         squareType |-> IF i = start THEN BLUE ELSE RED]]

\* new Room(firstPlayer, secondPlayer, secondType), and then the drops of an opening
Init ==
    \E secondType \in PlayerTypes :
        \E opening \in Openings(secondType), start \in StartingPlayers(secondType) :
            /\ players = NewPlayers(secondType, start)
            /\ board = Replay(NewBoard, opening, 1)
            /\ currentPlayer = (start + Len(opening)) % 2
            /\ last = [op |-> "new", pos |-> UNDEFINED, result |-> "ok", value |-> NoPlayer]
            /\ budget = Budget(secondType, opening)
            /\ heap = <<>>
            /\ frames = <<>>

\* The positions the callers pass to play
PlayInputs == IF budget > 0 THEN (-1) .. Cols ELSE {-1, Cols}

\* One call of room.play(pos)
Play(pos, u) ==
    \E r \in {play(board, currentPlayer, pos, u, RandDen)} :
        /\ board' = r.board
        /\ currentPlayer' = r.currentPlayer
        /\ last' = [op |-> "play", pos |-> pos, result |-> r.result, value |-> NoPlayer]
        /\ budget' = IF r.board # board THEN budget - 1 ELSE budget
        /\ UNCHANGED <<players, heap, frames>>

\* One call of room.passTurn(): play(free[Math.floor(Math.random() * free.length)])
PassTurn(u1, u) ==
    LET free == getFree(board)
        pos == Elem(free, RandomIndex(u1, RandDen, Len(free)))
    IN  /\ budget > 0
        /\ \E r \in {play(board, currentPlayer, pos, u, RandDen)} :
            /\ board' = r.board
            /\ currentPlayer' = r.currentPlayer
            /\ last' = [op |-> "passTurn", pos |-> pos, result |-> r.result,
                        value |-> NoPlayer]
            /\ budget' = IF r.board # board THEN budget - 1 ELSE budget
            /\ UNCHANGED <<players, heap, frames>>

\* One call of room.getWinner()
GetWinner ==
    /\ last' = IF ~isOver(board)
               THEN [op |-> "getWinner", pos |-> UNDEFINED, result |-> "GameInProgress",
                     value |-> NoPlayer]
               ELSE [op |-> "getWinner", pos |-> UNDEFINED, result |-> "ok",
                     value |-> getWinner(board)]
    /\ UNCHANGED <<board, players, currentPlayer, budget, heap, frames>>

Next ==
    \/ \E pos \in PlayInputs, u \in RandomDraws : Play(pos, u)
    \/ \E u1 \in 0 .. (RandDen - 1), u \in RandomDraws : PassTurn(u1, u)
    \/ GetWinner

Spec == Init /\ [][Next]_vars

\* ------------------------------------------------------------------ boards as objects
\* A Board holds a Square object in each cell, and setSquare changes the Square it
\* finds there (Board.js line 66).  Here a Square is a reference into heap, and a
\* Board is the reference each of its cells holds; frames are the boards in scope:
\* frames[1] the room's, the others copies, as the nested calls of _minimax hold them.

\* How many boards are in scope at once
MaxFrames == 3

Refs == 0 .. (MaxFrames * Cols * Rows - 1)

\* new Board(): the k-th board made gets Squares of its own, Ref(k, x, y)
Ref(k, x, y) == (k - 1) * Cols * Rows + x * Rows + y

NewSquares(k) == [x \in ColRange |-> [y \in RowRange |-> Ref(k, x, y)]]

\* getSquare(x, y).type, for every cell of the board whose squares are sq
Contents(h, sq) == [x \in ColRange |-> [y \in RowRange |-> h[sq[x][y]]]]

\* Square.setType(type)
setType(h, ref, type) == [h EXCEPT ![ref] = type]

\* Board.setSquare(x, y, type) when it does not throw, on the board whose squares are sq
heapSetSquare(h, sq, x, y, type) == setType(h, sq[x][y], type)

\* copy() handing out the squares of the board it copies
heapCopyShared(h, sq, k) == [heap |-> h, squares |-> sq]

\* Board.copy(), the copy being the k-th board made: a new Square in each cell,
\* given the type of the square it copies when that one is not empty
heapCopy(h, sq, k) ==
    [heap |-> [r \in Refs |->
                  IF r \div (Cols * Rows) = k - 1
                  THEN LET x == (r % (Cols * Rows)) \div Rows
                           y == r % Rows
                       IN  IF ~isEmpty(h[sq[x][y]]) THEN h[sq[x][y]] ELSE EMPTY
                  ELSE h[r]],
     squares |-> NewSquares(k)]

\* The two lines with setSquare called on board instead of on copy
searchChildInPlace(h, sq, k, pos, type) ==
    LET cpy == heapCopy(h, sq, k)
    IN  [heap |-> heapSetSquare(cpy.heap, sq, pos,
                                getFirstFreeSquarePos(Contents(cpy.heap, sq), pos), type),
         squares |-> cpy.squares]

\* The first two lines of each loop of _minimax:
\*   let copy = board.copy();
\*   copy.setSquare(pos, copy.getFirstFreeSquarePos(pos), <squareType>);
searchChild(h, sq, k, pos, type) ==
    LET cpy == heapCopy(h, sq, k)
    IN  [heap |-> heapSetSquare(cpy.heap, cpy.squares, pos,
                                getFirstFreeSquarePos(Contents(cpy.heap, cpy.squares), pos),
                                type),
         squares |-> cpy.squares]

Top == frames[Len(frames)]

Note(op, pos, value) == [op |-> op, pos |-> pos, result |-> "ok", value |-> value]

\* The most columns with an empty cell of a room whose board is followed as objects
MaxOpen == 2

\* A room as in Init late in a game, its board made of Square objects
CopyInit ==
    \E secondType \in PlayerTypes :
        \E opening \in Openings(secondType), start \in StartingPlayers(secondType) :
            /\ Len(getFree(Replay(NewBoard, opening, 1))) <= MaxOpen
            /\ players = NewPlayers(secondType, start)
            /\ board = Replay(NewBoard, opening, 1)
            /\ currentPlayer = (start + Len(opening)) % 2
            /\ last = Note("new", UNDEFINED, NoPlayer)
            /\ budget = MaxFree
            /\ frames = <<NewSquares(1)>>
            /\ heap = [r \in Refs |->
                          IF r < Cols * Rows THEN board[r \div Rows][r % Rows] ELSE EMPTY]

\* copy = <the newest board>.copy()
CopyBoard ==
    /\ Len(frames) < MaxFrames
    /\ \E r \in {heapCopy(heap, Top, Len(frames) + 1)} :
          /\ heap' = r.heap
          /\ frames' = Append(frames, r.squares)
    /\ last' = Note("copy", UNDEFINED, NoPlayer)
    /\ UNCHANGED <<board, players, currentPlayer, budget>>

\* The side whose drop is next on a board as a game goes, the starting side BLUE
SideToDrop(b) ==
    IF (Len(SelectSeq([i \in 1 .. Cols * Rows |-> b[(i - 1) \div Rows][(i - 1) % Rows]],
                      LAMBDA t : ~isEmpty(t))) % 2) = 0
    THEN BLUE ELSE RED

\* <the k-th board>.setSquare(pos, getFirstFreeSquarePos(pos), type); last.value is k
DropOn(k, pos, type) ==
    /\ budget > 0
    /\ hasFreeSquare(Contents(heap, frames[k]), pos)
    /\ heap' = heapSetSquare(heap, frames[k], pos,
                             getFirstFreeSquarePos(Contents(heap, frames[k]), pos), type)
    /\ board' = IF k = 1 /\ hasFreeSquare(board, pos)
                THEN setSquare(board, pos, getFirstFreeSquarePos(board, pos), type)
                ELSE board
    /\ last' = Note("setSquare", pos, k)
    /\ budget' = budget - 1
    /\ UNCHANGED <<players, currentPlayer, frames>>

\* One turn of a loop of _minimax down to its recursive call: the maximizer (the
\* newest board an odd one) drops the current player's type, the minimizer the
\* opponent's
SearchChild(pos) ==
    /\ Len(frames) < MaxFrames
    /\ budget > 0
    /\ ~isOver(Contents(heap, Top))
    /\ hasFreeSquare(Contents(heap, Top), pos)
    /\ \E r \in {searchChild(heap, Top, Len(frames) + 1, pos,
                             players[IF Len(frames) % 2 = 1 THEN currentPlayer
                                     ELSE Opponent(currentPlayer)].squareType)} :
          /\ heap' = r.heap
          /\ frames' = Append(frames, r.squares)
    /\ last' = Note("search", pos, NoPlayer)
    /\ budget' = budget - 1
    /\ UNCHANGED <<board, players, currentPlayer>>

\* The newest copy goes out of scope: a recursive call returns, a loop turns
Discard ==
    /\ Len(frames) > 1
    /\ frames' = SubSeq(frames, 1, Len(frames) - 1)
    /\ heap' = [r \in Refs |->
                   IF r \div (Cols * Rows) = Len(frames) - 1 THEN EMPTY ELSE heap[r]]
    /\ last' = Note("return", UNDEFINED, NoPlayer)
    /\ UNCHANGED <<board, players, currentPlayer, budget>>

CopyNext ==
    \/ CopyBoard
    \/ \E k \in 1 .. Len(frames), pos \in ColRange :
          DropOn(k, pos, SideToDrop(Contents(heap, frames[k])))
    \/ \E pos \in ColRange : SearchChild(pos)
    \/ Discard

CopySpec == CopyInit /\ [][CopyNext]_vars

\* ------------------------------------------------------------------ the search alone
\* _minimax as a function of the board, the depth and the player to move: rooms
\* late in a game, drops of the two sides in turn, and on each board the outermost
\* call at each depth.  last.pos is the depth, last.value what the call returned.

\* The depths _minimax is called with from play and below it, and the Cheat
\* bot's on the boards where that depth reaches the last empty square
Depths(b) ==
    (1 .. Depth(NORMAL_BOT))
        \cup (IF Cardinality({sq \in ColRange \X RowRange : isEmpty(b[sq[1]][sq[2]])})
                    <= Depth(CHEAT_BOT)
              THEN {Depth(CHEAT_BOT)} ELSE {})

SearchInit ==
    \E secondType \in PlayerTypes :
        \E opening \in Openings(secondType), start \in StartingPlayers(secondType) :
            /\ Len(getFree(Replay(NewBoard, opening, 1))) <= MaxOpen + 1
            /\ players = NewPlayers(secondType, start)
            /\ board = Replay(NewBoard, opening, 1)
            /\ currentPlayer = (start + Len(opening)) % 2
            /\ last = Note("new", UNDEFINED, NoPlayer)
            /\ budget = MaxFree
            /\ heap = <<>>
            /\ frames = <<>>

\* The current player's drop and swapPlayer(), no reply chained
DropOnly(pos) ==
    /\ budget > 0
    /\ ~isOver(board)
    /\ hasFreeSquare(board, pos)
    /\ board' = setSquare(board, pos, getFirstFreeSquarePos(board, pos),
                          players[currentPlayer].squareType)
    /\ currentPlayer' = swapPlayer(currentPlayer)
    /\ last' = Note("setSquare", pos, NoPlayer)
    /\ budget' = budget - 1
    /\ UNCHANGED <<players, heap, frames>>

\* this._minimax(this._board, depth, -Infinity, Infinity, true, true)
Search(depth) ==
    /\ ~isOver(board)
    /\ last' = Note("minimax", depth, minimax(board, depth, currentPlayer))
    /\ UNCHANGED <<board, players, currentPlayer, budget, heap, frames>>

SearchNext ==
    \/ \E pos \in ColRange : DropOnly(pos)
    \/ \E depth \in Depths(board) : Search(depth)

SearchSpec == SearchInit /\ [][SearchNext]_vars

\* ------------------------------------------------------------------ matches to the end
\* Rooms late in a game whose callers are not limited in their calls, and where a
\* turn that is not played is passed: passTurn() is called again and again.
\* How many cells are empty at most when the callers of such a room take it up
MaxEmpty == 8

EndInit ==
    \E secondType \in PlayerTypes :
        \E opening \in Openings(secondType), start \in StartingPlayers(secondType) :
            /\ Cols * Rows - Len(opening) <= MaxEmpty
            /\ players = NewPlayers(secondType, start)
            /\ board = Replay(NewBoard, opening, 1)
            /\ currentPlayer = (start + Len(opening)) % 2
            /\ last = Note("new", UNDEFINED, NoPlayer)
            /\ budget = Cols * Rows - Len(opening)
            /\ heap = <<>>
            /\ frames = <<>>

EndSpec ==
    /\ EndInit
    /\ [][Next]_vars
    /\ WF_vars(\E u1 \in 0 .. (RandDen - 1), u \in RandomDraws : PassTurn(u1, u))

\* ------------------------------------------------------------------ properties
\* What the properties below are stated with, none of it taken from the room's own
\* scans: the cells, the marks on a board, the cells two boards differ in, and a
\* line of four marks of one side in any of the four directions.
Cells == ColRange \X RowRange

Marks(b) == Cardinality({c \in Cells : b[c[1]][c[2]] # EMPTY})

Changed(b1, b2) == {c \in Cells : b1[c[1]][c[2]] # b2[c[1]][c[2]]}

Directions == {<<1, 0>>, <<0, 1>>, <<1, 1>>, <<1, -1>>}

HasLine(b, side) ==
    \E c \in Cells, d \in Directions :
        \A k \in 0 .. 3 :
            /\ c[1] + k * d[1] \in ColRange
            /\ c[2] + k * d[2] \in RowRange
            /\ b[c[1] + k * d[1]][c[2] + k * d[2]] = side

ColumnFull(b, col) == \A y \in RowRange : b[col][y] # EMPTY

Full(b) == \A x \in ColRange : ColumnFull(b, x)

Ended(b) == Full(b) \/ HasLine(b, RED) \/ HasLine(b, BLUE)

BotMatch == players[1].type # HUMAN

Drops == {"play", "passTurn"}

\* C1, as the specification states it: once the match is over (a line of four, or the
\* board full), every play(column) with column in 0..6, a column with empty cells
\* included, fails, and the board and the current player stay as they were.
C1_PlayFailsOnceOver ==
    [][(Ended(board) /\ last'.op = "play" /\ last'.pos \in ColRange)
        => (last'.result # "ok" /\ board' = board /\ currentPlayer' = currentPlayer)]_vars

\* C2: play(column) fails with the invalid-column error when the column is outside
\* 0..6, and with the full-column error when the column is on the board and has no
\* empty cell; in both cases no mark is placed and the turn does not change.
C2_PlayRejectsBadColumn ==
    [][last'.op = "play"
        => /\ (last'.pos \notin ColRange => last'.result = "InvalidColumn")
           /\ (last'.pos \in ColRange /\ ColumnFull(board, last'.pos)
                  => last'.result = "ColumnFull")
           /\ (last'.result \in {"InvalidColumn", "ColumnFull"}
                  => board' = board /\ currentPlayer' = currentPlayer
                     /\ players' = players)]_vars

\* A match in progress whose last call was a play on a full column
C2_Witness ==
    /\ last.op = "play" /\ last.result = "ColumnFull"
    /\ last.pos \in ColRange /\ ColumnFull(board, last.pos)
    /\ ~Ended(board)

\* C3: between two humans, after a successful play exactly one mark was added, and
\* the current player changed exactly when the board after the drop is not over; a
\* drop that ends the game leaves the current player on the one who made it.
C3_TurnSwapsUnlessOver ==
    [][(~BotMatch /\ last'.op \in Drops /\ last'.result = "ok")
        => /\ Marks(board') = Marks(board) + 1
           /\ (currentPlayer' # currentPlayer) <=> ~Ended(board')
           /\ currentPlayer' = IF Ended(board') THEN currentPlayer
                               ELSE 1 - currentPlayer]_vars

\* Two humans, and the last play completed a line for the player still current
C3_Witness ==
    /\ ~BotMatch /\ last.op = "play" /\ last.result = "ok"
    /\ HasLine(board, players[currentPlayer].squareType)
    /\ ~Full(board)

\* C4: against a bot of any tier, a successful play by the human in a match in
\* progress returns with either the human's mark alone on a board it ended, or the
\* human's mark and then the bot's, and then if the match is not over the human is
\* the current player again; and in no state between calls is the bot the
\* current player of a match that is not over.
C4_BotWaits == BotMatch /\ ~Ended(board) /\ currentPlayer # 0

C4_Reply ==
    (BotMatch /\ ~Ended(board) /\ last'.op \in Drops /\ last'.result = "ok")
        => \E y \in RowRange :
              /\ board[last'.pos][y] = EMPTY
              /\ LET mid == [board EXCEPT ![last'.pos][y] = players[0].squareType]
                 IN  \/ Ended(mid) /\ board' = mid
                     \/ /\ ~Ended(mid)
                        /\ \E c \in Cells :
                              /\ mid[c[1]][c[2]] = EMPTY
                              /\ board' = [mid EXCEPT
                                              ![c[1]][c[2]] = players[1].squareType]
                        /\ (~Ended(board') => currentPlayer' = 0)

C4_BotRepliesInSameCall == [](~C4_BotWaits) /\ [][C4_Reply]_vars

\* The Cheat bot has replied to the human's play and the match goes on
C4_Witness ==
    /\ players[1].type = CHEAT_BOT /\ last.op = "play" /\ last.result = "ok"
    /\ Marks(board) = Len(CheatMidgame) + 2
    /\ ~Ended(board) /\ currentPlayer = 0

\* C5: in every state reached by play and passTurn, no column has an empty cell
\* under an occupied one (row Rows-1 is the bottom).
C5_Gravity ==
    \A x \in ColRange, y \in RowRange :
        board[x][y] # EMPTY => \A y2 \in RowRange : y2 > y => board[x][y2] # EMPTY

\* After a successful passTurn, a column holds marks under empty cells
C5_Witness ==
    /\ last.op = "passTurn" /\ last.result = "ok"
    /\ \E x \in ColRange : board[x][Rows - 1] # EMPTY /\ board[x][0] = EMPTY

\* C6: an occupied cell keeps its mark in every step; and a successful call changes
\* one cell for each drop it makes, from empty to the mark of the player who drops:
\* one in the column asked for with the mover's mark, and, when a bot replies, one
\* more with the bot's mark.
C6_DropSetsOneCell ==
    [][/\ \A c \in Cells : board[c[1]][c[2]] # EMPTY => board'[c[1]][c[2]] = board[c[1]][c[2]]
       /\ (last'.op \in Drops /\ last'.result = "ok")
            => \E c \in Changed(board, board') :
                  /\ c[1] = last'.pos
                  /\ board'[c[1]][c[2]] = players[currentPlayer].squareType
                  /\ \/ Changed(board, board') = {c}
                     \/ /\ players[1 - currentPlayer].type # HUMAN
                        /\ \E e \in Changed(board, board') \ {c} :
                              /\ Changed(board, board') = {c, e}
                              /\ board'[e[1]][e[2]] = players[1 - currentPlayer].squareType
       /\ (last'.op \notin Drops \/ last'.result # "ok") => board' = board]_vars

\* A new room against the Stupid bot after the first play: the human's mark and the bot's
C6_Witness ==
    /\ players[1].type = STUPID_BOT /\ last.op = "play" /\ last.result = "ok"
    /\ Marks(board) = 2
    /\ \E c \in Cells : board[c[1]][c[2]] = BLUE
    /\ \E c \in Cells : board[c[1]][c[2]] = RED

\* The boards one drop of either side away from a board: the boards a search builds
Hypothetical(b) ==
    {b} \cup {[b EXCEPT ![c[1]][c[2]] = side] :
                c \in {d \in Cells : b[d[1]][d[2]] = EMPTY
                                     /\ (d[2] = Rows - 1 \/ b[d[1]][d[2] + 1] # EMPTY)},
                side \in {RED, BLUE}}

WinnerIsRight(b) ==
    LET w == getSquareTypeWinner(b)
    IN  /\ (b = NewBoard => w = NULL)
        /\ (HasLine(b, RED) \/ HasLine(b, BLUE)) => w \in {RED, BLUE}
        /\ w # NULL => w \in {RED, BLUE} /\ HasLine(b, w)

\* C7: on the board of every state, and on every board one drop away from it, the
\* winner scan gives no winner for the empty board, gives a side whenever some row,
\* column, diagonal or anti-diagonal holds four marks of one side in a row, and
\* never gives a side that has no such line.
C7_WinnerScan == \A b \in Hypothetical(board) : WinnerIsRight(b)

\* A board with a line of BLUE and empty cells left, which the scan reports as BLUE
C7_Witness ==
    /\ HasLine(board, BLUE) /\ ~HasLine(board, RED) /\ ~Full(board)
    /\ getSquareTypeWinner(board) = BLUE

\* C8: isOver holds exactly when the winner scan gives a side or no column has an
\* empty cell; a full board with no line is over with no winner (a draw); a full
\* board with a line has that line's side as winner.
C8_OverIffWinnerOrFull ==
    /\ isOver(board) <=> (getSquareTypeWinner(board) # NULL \/ Full(board))
    /\ (Full(board) /\ ~HasLine(board, RED) /\ ~HasLine(board, BLUE))
          => isOver(board) /\ getWinner(board) = NoPlayer
    /\ \A side \in {RED, BLUE} :
          (Full(board) /\ HasLine(board, side))
              => /\ isOver(board)
                 /\ getWinner(board) \in {0, 1}
                 /\ players[getWinner(board)].squareType = side

\* The drop that filled the board also completed a line
C8_Witness ==
    /\ last.op \in Drops /\ last.result = "ok"
    /\ Full(board) /\ (HasLine(board, RED) \/ HasLine(board, BLUE))
    /\ getWinner(board) # NoPlayer

\* C9: getWinner() changes no state; it fails with the game-in-progress error in
\* every state that is not over; in a state that is over it returns the player
\* whose side has the line of four, or no player when no side has one.
C9_GetWinner ==
    [][last'.op = "getWinner"
        => /\ board' = board /\ currentPlayer' = currentPlayer /\ players' = players
           /\ ~Ended(board) => last'.result = "GameInProgress"
           /\ Ended(board)
                => /\ last'.result = "ok"
                   /\ last'.value = NoPlayer
                        <=> (~HasLine(board, RED) /\ ~HasLine(board, BLUE))
                   /\ last'.value # NoPlayer
                        => /\ last'.value \in {0, 1}
                           /\ HasLine(board, players[last'.value].squareType)]_vars

\* getWinner() has returned the second player, who has a line
C9_Witness ==
    /\ last.op = "getWinner" /\ last.result = "ok" /\ last.value = 1
    /\ HasLine(board, players[1].squareType)

\* C10: a new room is not over; against a bot the human (player 0) is the current
\* player; the current player of a new room holds BLUE; the two players hold
\* different sides, each RED or BLUE; and no step changes who holds which side.
C10_Sides ==
    /\ players[0].squareType # players[1].squareType
    /\ {players[0].squareType, players[1].squareType} = {RED, BLUE}
    /\ (last.op = "new" /\ board = NewBoard)
          => /\ ~isOver(board) /\ ~Ended(board)
             /\ players[currentPlayer].squareType = BLUE
             /\ BotMatch => currentPlayer = 0

C10_Construction == []C10_Sides /\ [][players' = players]_vars

\* A new room of two humans in which the second player starts
C10_Witness ==
    /\ last.op = "new" /\ board = NewBoard
    /\ ~BotMatch /\ currentPlayer = 1 /\ players[1].squareType = BLUE

\* The cell a drop into column col of board b fills, and the board after it
Playable(b, c) ==
    b[c[1]][c[2]] = EMPTY /\ (c[2] = Rows - 1 \/ b[c[1]][c[2] + 1] # EMPTY)

Dropped(b, col, side) ==
    LET c == CHOOSE d \in Cells : d[1] = col /\ Playable(b, d)
    IN  [b EXCEPT ![c[1]][c[2]] = side]

\* Both ways along each of the four directions
Ways == Directions \cup {<<-d[1], -d[2]>> : d \in Directions}

\* side has three marks in a row on b and the next cell of that line is the cell a
\* drop into column col fills
OpenThree(b, side, col) ==
    \E c \in Cells, d \in Ways :
        /\ \A k \in 0 .. 2 :
              /\ c[1] + k * d[1] \in ColRange
              /\ c[2] + k * d[2] \in RowRange
              /\ b[c[1] + k * d[1]][c[2] + k * d[2]] = side
        /\ c[1] + 3 * d[1] = col
        /\ c[2] + 3 * d[2] \in RowRange
        /\ Playable(b, <<col, c[2] + 3 * d[2]>>)

SearchBots == {EASY_BOT, NORMAL_BOT, CHEAT_BOT}

\* A successful drop of the human, made while the match is in progress, after
\* which the match is not over: the bot replies to the board AfterHuman
HumanDropped ==
    /\ BotMatch /\ ~Ended(board)
    /\ last'.op \in Drops /\ last'.result = "ok"
    /\ ~Ended(Dropped(board, last'.pos, players[0].squareType))

AfterHuman == Dropped(board, last'.pos, players[0].squareType)

\* C11, as the specification states it: whenever a bot that searches (depth 1, 3
\* or 8) is to move and holds three in a row whose open fourth cell its next drop
\* can fill, its reply completes four in a row at once.
C11_SearchTakesWin ==
    [][(HumanDropped /\ players[1].type \in SearchBots
        /\ \E col \in ColRange : OpenThree(AfterHuman, players[1].squareType, col))
       => HasLine(board', players[1].squareType)]_vars

\* C12, as the specification states it: whenever the Normal or the Cheat bot is to
\* move and the human holds three in a row whose open fourth cell the next drop
\* can fill, the bot's reply goes into that cell's column (here only where the
\* human has one such column and the bot itself has no win to take).
C12_SearchBlocks ==
    [][(HumanDropped /\ players[1].type \in {NORMAL_BOT, CHEAT_BOT}
        /\ ~\E col \in ColRange :
                /\ ~ColumnFull(AfterHuman, col)
                /\ HasLine(Dropped(AfterHuman, col, players[1].squareType),
                           players[1].squareType))
       => \A col \in ColRange :
            (OpenThree(AfterHuman, players[0].squareType, col)
             /\ \A c2 \in ColRange \ {col} :
                   ~OpenThree(AfterHuman, players[0].squareType, c2))
              => board' = Dropped(AfterHuman, col, players[1].squareType)]_vars

\* The columns of b that still have an empty cell
FreeColumns(b) == {col \in ColRange : ~ColumnFull(b, col)}

\* C13: the Stupid bot's reply is a drop into the lowest-indexed column that has
\* an empty cell on the board after the human's drop; the Random bot's reply is a
\* drop into some column that has an empty cell on that board.
C13_StupidAndRandomColumns ==
    [][HumanDropped
       => /\ players[1].type = STUPID_BOT
              => \E col \in FreeColumns(AfterHuman) :
                    /\ \A c2 \in FreeColumns(AfterHuman) : col <= c2
                    /\ board' = Dropped(AfterHuman, col, players[1].squareType)
          /\ players[1].type = RANDOM_BOT
              => \E col \in FreeColumns(AfterHuman) :
                    board' = Dropped(AfterHuman, col, players[1].squareType)]_vars

\* The Stupid bot has replied on a board whose first columns are full
C13_Witness ==
    /\ players[1].type = STUPID_BOT /\ last.op = "play" /\ last.result = "ok"
    /\ Marks(board) = Len(StupidMidgame) + 2
    /\ ColumnFull(board, 0) /\ ~Ended(board)

\* The columns a step dropped marks into, and how many into column col
DroppedInto == {c[1] : c \in Changed(board, board')}

DropsInto(col) == Cardinality({c \in Changed(board, board') : c[1] = col})

\* C14, as the specification states it: after a successful drop into a column,
\* the row getFirstFreeSquarePos gives for that column is strictly greater than
\* before, or the column is full; and hasFreeSquare(column) holds exactly when the
\* column has an empty cell.
C14_RowIncreases ==
    [][(last'.op \in Drops /\ last'.result = "ok")
       => /\ \A col \in DroppedInto :
                \/ ~hasFreeSquare(board', col)
                \/ getFirstFreeSquarePos(board', col) > getFirstFreeSquarePos(board, col)
          /\ \A col \in ColRange : hasFreeSquare(board', col) <=> ~ColumnFull(board', col)]_vars

\* C14, as the code has it: rows are numbered from the top (row Rows-1 is the
\* bottom), so after a successful drop into a column the row getFirstFreeSquarePos
\* gives for that column is strictly smaller than before, by one for each mark
\* dropped into it, or the column is full; and hasFreeSquare(column) holds exactly
\* when the column has an empty cell.
C14_RowDecreases ==
    [][(last'.op \in Drops /\ last'.result = "ok")
       => /\ DroppedInto # {}
          /\ \A col \in DroppedInto :
                \/ ~hasFreeSquare(board', col)
                \/ /\ getFirstFreeSquarePos(board', col) < getFirstFreeSquarePos(board, col)
                   /\ getFirstFreeSquarePos(board', col)
                        = getFirstFreeSquarePos(board, col) - DropsInto(col)
          /\ \A col \in ColRange : hasFreeSquare(board', col) <=> ~ColumnFull(board', col)]_vars

\* After a successful play the column played still has empty cells, above marks
C14_Witness ==
    /\ last.op = "play" /\ last.result = "ok"
    /\ hasFreeSquare(board, last.pos)
    /\ getFirstFreeSquarePos(board, last.pos) < Rows - 1
    /\ \E col \in ColRange : ColumnFull(board, col)

\* The boards in scope, as their contents
ContentsOf(k) == Contents(heap, frames[k])

SquaresOf(k) == {frames[k][c[1]][c[2]] : c \in Cells}

NoSharedSquares ==
    \A j, k \in 1 .. Len(frames) : j < k => SquaresOf(j) \cap SquaresOf(k) = {}

\* C15: copy() returns a board with the same contents in every cell as the board
\* copied and leaves every board as it was; a drop on any board, the copy or the
\* one copied, changes the cell dropped into on that board and no cell of any
\* other board; no two boards hold the same Square.
C15_CopyStep ==
    /\ last'.op = "copy"
          => /\ Contents(heap', frames'[Len(frames')]) = ContentsOf(Len(frames))
             /\ \A k \in 1 .. Len(frames) : Contents(heap', frames'[k]) = ContentsOf(k)
    /\ last'.op = "setSquare"
          => \A k \in 1 .. Len(frames) :
                IF k = last'.value
                THEN \E c \in Cells :
                        /\ c[1] = last'.pos /\ Playable(ContentsOf(k), c)
                        /\ Changed(ContentsOf(k), Contents(heap', frames'[k])) = {c}
                        /\ heap'[frames'[k][c[1]][c[2]]] \in {RED, BLUE}
                ELSE Contents(heap', frames'[k]) = ContentsOf(k)

C15_CopyIsIndependent == []NoSharedSquares /\ [][C15_CopyStep]_vars

\* A copy has been dropped on and differs from the room's board, which is as it was
C15_Witness ==
    /\ Len(frames) >= 2
    /\ last.op = "setSquare" /\ last.value = 2
    /\ ContentsOf(1) = board
    /\ Marks(ContentsOf(2)) > Marks(ContentsOf(1))

\* C18: a step of the search (a copy of the newest board with a drop on the copy, at
\* any depth, or the return from it) changes no cell of the room's board, nor the
\* current player, nor the players' sides; and the room's board holds at every
\* moment what the calls made on it have put there.
C18_SearchStep ==
    last'.op \in {"search", "return"}
        => /\ Contents(heap', frames'[1]) = ContentsOf(1)
           /\ frames'[1] = frames[1]
           /\ board' = board /\ currentPlayer' = currentPlayer /\ players' = players

C18_SearchLeavesBoard == [](ContentsOf(1) = board) /\ [][C18_SearchStep]_vars

\* Two levels into a search of the Cheat bot: the copies hold one and two marks
\* more than the room's board, which is as it was
C18_Witness ==
    /\ players[1].type = CHEAT_BOT
    /\ last.op = "search" /\ Len(frames) = 3
    /\ ContentsOf(1) = board
    /\ Marks(ContentsOf(2)) = Marks(board) + 1
    /\ Marks(ContentsOf(3)) = Marks(board) + 2

\* C16: passTurn() on a match that is not over succeeds; the column it plays has
\* an empty cell; it puts one mark of the current player there; and the room it
\* leaves is the room play(column) leaves for that column: the other player's
\* turn unless the drop ended the match, the bot's reply made.
C16_PassTurnPlays ==
    [][(last'.op = "passTurn" /\ ~Ended(board))
       => /\ last'.result = "ok"
          /\ last'.pos \in FreeColumns(board)
          /\ \E c \in Changed(board, board') :
                /\ c[1] = last'.pos /\ Playable(board, c)
                /\ board'[c[1]][c[2]] = players[currentPlayer].squareType
          /\ Marks(board') = Marks(board)
                + (IF BotMatch /\ ~Ended(Dropped(board, last'.pos,
                                                 players[currentPlayer].squareType))
                   THEN 2 ELSE 1)
          /\ \E u \in RandomDraws :
                play(board, currentPlayer, last'.pos, u, RandDen)
                    = Outcome(board', currentPlayer', "ok")]_vars

\* passTurn() against the Easy bot, which has replied
C16_Witness ==
    /\ players[1].type = EASY_BOT /\ last.op = "passTurn" /\ last.result = "ok"
    /\ Marks(board) = Len(EasyMidgame) + 2
    /\ currentPlayer = 0

\* Minimax with no pruning, over the same terminal values and evaluator: the value
\* of board b at the given depth for the player cp, side to drop the maximizer's
\* (cp's) or the minimizer's
RECURSIVE BruteValue(_, _, _, _)
BruteValue(b, depth, isMaximizer, cp) ==
    IF depth = 0 \/ Ended(b)
    THEN IF HasLine(b, players[cp].squareType) THEN WIN_POINTS
         ELSE IF HasLine(b, players[1 - cp].squareType) THEN OPP_WIN_POINTS
         ELSE IF Full(b) THEN 0
         ELSE getScore(b, players[cp].squareType)
    ELSE LET values == {BruteValue(Dropped(b, col, players[IF isMaximizer THEN cp
                                                             ELSE 1 - cp].squareType),
                                   depth - 1, ~isMaximizer, cp) :
                          col \in FreeColumns(b)}
         IN  IF isMaximizer
             THEN CHOOSE v \in values : \A w \in values : w <= v
             ELSE CHOOSE v \in values : \A w \in values : v <= w

BruteChild(b, depth, cp, col) ==
    BruteValue(Dropped(b, col, players[cp].squareType), depth - 1, FALSE, cp)

\* C17: on every board that is not over and at every depth from 1, the outermost
\* call of the alpha-beta search returns the lowest-indexed free column whose
\* value under minimax without pruning is the greatest, and the value it found for
\* the root is that greatest value.
C17_AlphaBetaIsMinimax ==
    (last.op = "minimax")
        => LET best == BruteValue(board, last.pos, TRUE, currentPlayer)
           IN  /\ last.value \in FreeColumns(board)
               /\ BruteChild(board, last.pos, currentPlayer, last.value) = best
               /\ \A col \in FreeColumns(board) :
                     col < last.value
                        => BruteChild(board, last.pos, currentPlayer, col) < best
               /\ MaxLoop(board, last.pos, -Infinity, Infinity, getFree(board), 1,
                          -Infinity, UNDEFINED, currentPlayer).eval = best

\* A depth-3 search has returned a column that is not the first free one
C17_Witness ==
    /\ last.op = "minimax" /\ last.pos = 3
    /\ last.value \in FreeColumns(board)
    /\ \E col \in FreeColumns(board) : col < last.value

\* C19: against a bot of any tier, a call of play or passTurn that drops the
\* human's mark into a column with an empty cell of a match in progress never ends
\* rejected; and when that drop does not end the match, the call has also dropped
\* the bot's mark, into a column that had an empty cell after the human's drop.
C19_BotReplyIsPlayable ==
    [][(/\ BotMatch /\ ~Ended(board)
        /\ last'.op \in Drops /\ last'.pos \in FreeColumns(board))
       => /\ last'.result = "ok"
          /\ ~Ended(AfterHuman)
                => \E col \in FreeColumns(AfterHuman) :
                      board' = Dropped(AfterHuman, col, players[1].squareType)]_vars

\* The Easy bot has replied to the human's drop
C19_Witness ==
    /\ players[1].type = EASY_BOT /\ last.op \in Drops /\ last.result = "ok"
    /\ Marks(board) = Len(EasyMidgame) + 2

\* The windows of four cells in a line on the board, each once: its first cell and
\* its direction
Windows ==
    {w \in Cells \X Directions :
        /\ w[1][1] + 3 * w[2][1] \in ColRange
        /\ w[1][2] + 3 * w[2][2] \in RowRange}

WindowCells(w) == {<<w[1][1] + k * w[2][1], w[1][2] + k * w[2][2]>> : k \in 0 .. 3}

\* The number of windows of b with the given counts of empty cells and of cells
\* of the side
WindowsWith(b, side, empties, own) ==
    Cardinality({w \in Windows :
        /\ Cardinality({c \in WindowCells(w) : b[c[1]][c[2]] = EMPTY}) = empties
        /\ Cardinality({c \in WindowCells(w) : b[c[1]][c[2]] = side}) = own})

TableScore(b, side) ==
      4 * Cardinality({y \in RowRange : b[3][y] = side})
    + 10000 * WindowsWith(b, side, 0, 4)
    - 1000 * WindowsWith(b, side, 0, 0)
    + 5 * WindowsWith(b, side, 1, 3)
    - 5 * WindowsWith(b, side, 1, 0)
    + 2 * WindowsWith(b, side, 2, 2)
    - 2 * WindowsWith(b, side, 2, 0)

\* C20: on every board and for each side, _getScore is 4 for each cell of the side
\* in the center column, plus over the 69 windows of four cells in a line, each
\* once, +10000 for four cells of the side, -1000 for four of the other side, +5
\* for three of the side and an empty cell, -5 for three of the other side and an
\* empty cell, +2 for two of the side and two empty, -2 for two of the other side
\* and two empty, and nothing for any other window.
C20_ScoreIsTableSum ==
    /\ Cardinality(Windows) = 69
    /\ \A side \in {RED, BLUE} : getScore(board, side) = TableScore(board, side)

\* A board in play with a mark of RED in the center column, windows of five of the
\* kinds that count for RED, and a window with marks of both sides
C20_Witness ==
    /\ last.op \in Drops /\ last.result = "ok"
    /\ \E y \in RowRange : board[3][y] = RED
    /\ WindowsWith(board, RED, 0, 0) > 0
    /\ WindowsWith(board, RED, 1, 3) > 0
    /\ WindowsWith(board, RED, 1, 0) > 0
    /\ WindowsWith(board, RED, 2, 2) > 0
    /\ WindowsWith(board, RED, 2, 0) > 0
    /\ \E w \in Windows :
          /\ \E c \in WindowCells(w) : board[c[1]][c[2]] = RED
          /\ \E c \in WindowCells(w) : board[c[1]][c[2]] = BLUE

\* C21: in every state, at most one side has a line of four, and a side that has
\* one is the side of the current player, who is the player getWinner() gives; and
\* a call of play or passTurn that leaves a line of four on the board has dropped
\* a mark of that side, the current player's after the call.
C21_LineSide ==
    /\ ~(HasLine(board, RED) /\ HasLine(board, BLUE))
    /\ \A side \in {RED, BLUE} :
          HasLine(board, side)
             => /\ players[currentPlayer].squareType = side
                /\ getWinner(board) = currentPlayer

C21_LineStep ==
    (last'.op \in Drops /\ last'.result = "ok")
        => \A side \in {RED, BLUE} :
              HasLine(board', side)
                 => /\ \E c \in Changed(board, board') : board'[c[1]][c[2]] = side
                    /\ players[currentPlayer'].squareType = side

C21_WinnerIsCurrentPlayer ==
    /\ []C21_LineSide
    /\ [][C21_LineStep]_vars
    /\ [][(last'.op = "getWinner" /\ last'.result = "ok" /\ last'.value # NoPlayer)
            => last'.value = currentPlayer]_vars

\* getWinner() has returned the current player of a won match in which a mark was
\* dropped after the line of four was made
C21_Witness ==
    /\ last.op = "getWinner" /\ last.result = "ok" /\ last.value = currentPlayer
    /\ HasLine(board, players[currentPlayer].squareType)
    /\ \E c \in Cells :
          /\ board[c[1]][c[2]] = players[currentPlayer].squareType
          /\ HasLine([board EXCEPT ![c[1]][c[2]] = EMPTY],
                     players[currentPlayer].squareType)
          /\ Playable([board EXCEPT ![c[1]][c[2]] = EMPTY], c)

\* C22: every call of play or passTurn that is accepted adds a mark to the board,
\* which has Cols * Rows cells, so the calls accepted so far are no more than the
\* marks dropped by them (budget counts the calls still allowed); a room whose board is full is over; a room that is over stays
\* over; and a match whose turns are passed when they are not played gets over.
C22_AcceptedAddsMark ==
    (last'.op \in Drops /\ last'.result = "ok")
        => /\ Marks(board') > Marks(board)
           /\ \A c \in Cells : board[c[1]][c[2]] # EMPTY
                                  => board'[c[1]][c[2]] = board[c[1]][c[2]]
           /\ budget' = budget - 1

C22_MatchTerminates ==
    /\ [](budget >= Cols * Rows - Marks(board) /\ Marks(board) <= Cols * Rows)
    /\ [][C22_AcceptedAddsMark]_vars
    /\ [](Full(board) => isOver(board))
    /\ [][isOver(board) => isOver(board')]_vars
    /\ <>isOver(board)

\* The last empty cell has been filled by an accepted call and no side has a line
C22_Witness ==
    /\ last.op \in Drops /\ last.result = "ok"
    /\ Full(board)
    /\ ~HasLine(board, RED) /\ ~HasLine(board, BLUE)
====
